---- MODULE Spec2Model ----
(***************************************************************************)
(* Coverage grid, traversal generators and mission construction of the     *)
(* cornellnexus ground-coverage robot (src/engine/grid.py,                 *)
(* src/engine/mission.py).                                                 *)
(*                                                                         *)
(* A Node object is identified by the <<row, col>> cell of Grid.nodes that *)
(* holds it (generate_nodes stores one fresh Node per cell).  The two      *)
(* mutable Node flags are kept as sets of cells: active, border.           *)
(* A Python value that may be None is kept as a sequence: <<>> is None and *)
(* <<v>> is the value v.                                                   *)
(***************************************************************************)
EXTENDS Integers, Sequences, FiniteSets, TLC

VARIABLES
    num_rows,           \* Grid.num_rows
    num_cols,           \* Grid.num_cols
    active,             \* cells whose Node has its active flag set
    border,             \* cells whose Node has its border flag set
    border_nodes,       \* Grid.border_nodes      (None before the first analysis)
    leftmost_node,      \* Grid.leftmost_node
    leftmost_node_pos,  \* Grid.leftmost_node_pos
    all_waypoints,      \* Mission.all_waypoints      (None: no Mission constructed)
    waypoints_to_visit, \* Mission.waypoints_to_visit
    y_extent,           \* metres from lat_min to lat_max of the Grid's box
    x_extent,           \* metres from long_min to long_max of the Grid's box
    nodes,              \* Grid.nodes: cell -> <<latitude, longitude>> of its Node
    adj,                \* locals of get_all_lawnmower_waypoints_adjustable
    phase,              \* Robot.phase ("none": no Robot constructed)
    state,              \* Robot.state, <<x, y, heading>>: millimetres, turns
    truthpose,          \* Robot.truthpose, the sequence of its rows
    is_sim,             \* Robot.is_sim
    position_noise,     \* Robot.position_noise, metres
    rb,                 \* locals of Robot.roomba_mover
    allowed_dist_error, \* Mission.allowed_dist_error, metres
    mpc,                \* position of Mission.execute_mission
    stack,              \* the Robot methods being executed, outermost first
    lpc,                \* position inside Robot.lawn_mover
    reached,            \* waypoints lawn_mover has reached in the running call
    op,                 \* the last call made on the grid, <<name, argument ...>>
    ret,                \* what that call returned (None when it raised)
    err                 \* the exception that call raised, or "none"

vars == <<num_rows, num_cols, active, border, border_nodes, leftmost_node,
          leftmost_node_pos, all_waypoints, waypoints_to_visit, y_extent,
          x_extent, nodes, adj, phase, state, truthpose, is_sim, position_noise,
          rb, allowed_dist_error, mpc, stack, lpc, reached,
          op, ret, err>>

grid_vars == <<num_rows, num_cols, active, border, border_nodes, leftmost_node,
               leftmost_node_pos>>

mission_vars == <<all_waypoints, waypoints_to_visit>>

box_vars == <<y_extent, x_extent, nodes>>

sim_vars == <<truthpose, is_sim, position_noise, rb>>

robot_vars ==
    <<phase, state, allowed_dist_error, mpc, stack, lpc, reached, sim_vars>>

--------------------------------------------------------------------------
\* Bounds of the model.

\* largest number of cells of a grid of the lifecycle specification Spec
MaxCells == 4
\* largest num_rows and num_cols of the traversal specification SpecTraversal
MaxDim == 6
\* largest num_rows and num_cols of the border-analysis specification SpecBorder
MaxBorderDim == 5
\* SpecBorder starts from the activation patterns that differ from "no node
\* active" or from "every node active" in at most this many cells
MaxHoles == 2
\* largest num_rows and num_cols of the grid of a mission (SpecMission,
\* SpecLawnMover)
MaxMissionDim == 2
\* the robot moves inside the box of the grid widened by this many metres
Margin == 1
\* largest allowed_dist_error, metres
MaxDistError == 1
\* largest num_rows and num_cols of the adjustable-traversal specification
\* SpecAdjustable
MaxAdjDim == 3
\* largest number of rows of truthpose
MaxLog == 3
\* largest position_noise, metres
MaxNoise == 1
\* largest time_limit of roomba_mover, seconds
MaxTimeLimit == 1

--------------------------------------------------------------------------
\* Python values.

None == <<>>

Some(v) == <<v>>

Min(a, b) == IF a <= b THEN a ELSE b

Max(a, b) == IF a >= b THEN a ELSE b

\* list.reverse()
RECURSIVE Reverse(_)
Reverse(s) == IF s = <<>> THEN <<>> ELSE Append(Reverse(Tail(s)), Head(s))

\* x in list
InList(x, s) == \E k \in 1..Len(s) : s[k] = x

\* An index into one axis of a numpy array of extent n: a negative index
\* counts from the end, an index outside -n..n-1 raises IndexError.
IndexOk(i, n) == -n <= i /\ i < n

NormIndex(i, n) == IF i < 0 THEN i + n ELSE i

Cells(rows, cols) == (0..(rows - 1)) \X (0..(cols - 1))

--------------------------------------------------------------------------
\* Grid.__init__

STEP_SIZE_METERS == 2

\* calc_step with the number of steps rounded up
calc_step_ceil(y_range, x_range, step_size_m) ==
    LET num_y_steps == (y_range + step_size_m - 1) \div step_size_m
        num_x_steps == (x_range + step_size_m - 1) \div step_size_m
    IN  <<num_y_steps + 1, num_x_steps + 1>>

\* calc_step: the bounding box spans x_range metres east and y_range metres
\* north (get_vincenty_x / get_vincenty_y of its corners); returns
\* <<num_rows, num_cols>>.
calc_step(y_range, x_range, step_size_m) ==
    LET num_y_steps == y_range \div step_size_m
        num_x_steps == x_range \div step_size_m
    IN  <<num_y_steps + 1, num_x_steps + 1>>

\* Node(lat, long, x, y): both flags of a new Node are clear.
NodeInitActive == FALSE

NodeInitBorder == FALSE

\* generate_nodes, one pass of the inner loop (column i, step j): the row the
\* new Node is stored at, and its <<latitude, longitude>>.  Latitude is
\* counted in lat_step from the origin's latitude (lat_min), longitude in
\* long_step from the origin's longitude (long_min).  An odd column is walked
\* from the top down.
generate_nodes_cell_noflip(i, j, rows) ==
    IF i % 2 = 0
    THEN [row |-> j, node |-> <<j, i>>]
    ELSE [row |-> j, node |-> <<(rows - 1) - j, i>>]

generate_nodes_cell(i, j, rows) ==
    IF i % 2 = 0
    THEN [row |-> j, node |-> <<j, i>>]
    ELSE [row |-> rows - (j + 1), node |-> <<(rows - 1) - j, i>>]

\* generate_nodes from pass k on (k = i * rows + j); node_list maps a cell to
\* None (np.empty) or to Some(<<latitude, longitude>>).
RECURSIVE generate_nodes_loop(_, _, _, _)
generate_nodes_loop(node_list, k, rows, cols) ==
    IF k >= rows * cols
    THEN node_list
    ELSE LET i == k \div rows
             j == k % rows
             c == generate_nodes_cell(i, j, rows)
         IN  generate_nodes_loop(
                 [node_list EXCEPT ![<<c.row, i>>] = Some(c.node)],
                 k + 1, rows, cols)

generate_nodes(rows, cols) ==
    generate_nodes_loop([p \in Cells(rows, cols) |-> None], 0, rows, cols)

\* get_all_lawnmower_waypoints_adjustable is not running
AdjIdle ==
    [pc |-> "idle", row |-> 0, col |-> 0, rows |-> 0, cols |-> 0,
     phase |-> "DOWN", waypoints |-> <<>>]

\* roomba_mover is not running
RoombaIdle == [pc |-> "idle", dt |-> 0, time_limit |-> 0]

\* No Robot has been constructed and no Mission is running.
NoRobot ==
    /\ phase = "none"
    /\ state = <<0, 0, 0>>
    /\ truthpose = <<>>
    /\ is_sim = FALSE
    /\ position_noise = 0
    /\ rb = RoombaIdle
    /\ allowed_dist_error = 0
    /\ mpc = "idle"
    /\ stack = <<>>
    /\ lpc = "idle"
    /\ reached = 0

\* The state Grid.__init__ leaves for a box of the given extents.
GridInit(yr, xr) ==
    LET dims == calc_step(yr, xr, STEP_SIZE_METERS)
    IN  /\ y_extent = yr
        /\ x_extent = xr
        /\ nodes = generate_nodes(dims[1], dims[2])
        /\ adj = AdjIdle
        /\ NoRobot
        /\ num_rows = dims[1]
        /\ num_cols = dims[2]
        /\ active = {p \in Cells(dims[1], dims[2]) : NodeInitActive}
        /\ border = {p \in Cells(dims[1], dims[2]) : NodeInitBorder}
        /\ border_nodes = None
        /\ leftmost_node = None
        /\ leftmost_node_pos = None
        /\ all_waypoints = None
        /\ waypoints_to_visit = None
        /\ op = <<"Grid">>
        /\ ret = None
        /\ err = "none"

--------------------------------------------------------------------------
\* Activation.

\* Node.activate_node() on the node of cell p
NodeActivate(act, p) == act \cup {p}

\* activate_node_result where activating an active node clears its flag
activate_node_result_toggle(act, row, col, rows, cols) ==
    IF IndexOk(row, rows) /\ IndexOk(col, cols)
    THEN LET p == <<NormIndex(row, rows), NormIndex(col, cols)>>
         IN  [active |-> IF p \in act THEN act \ {p} ELSE NodeActivate(act, p),
              err |-> "none"]
    ELSE [active |-> act, err |-> "IndexError"]

\* Grid.activate_node(row, col): the activation set afterwards, and the error
activate_node_result(act, row, col, rows, cols) ==
    IF IndexOk(row, rows) /\ IndexOk(col, cols)
    THEN [active |-> NodeActivate(act, <<NormIndex(row, rows), NormIndex(col, cols)>>),
          err |-> "none"]
    ELSE [active |-> act, err |-> "IndexError"]

\* Grid.activate_nodes: the calls of activate_node in loop order, stopping at
\* the first that raises.
RECURSIVE activate_nodes_loop(_, _, _, _, _)
activate_nodes_loop(act, calls, k, rows, cols) ==
    IF k > Len(calls)
    THEN [active |-> act, err |-> "none"]
    ELSE LET r == activate_node_result(act, calls[k][1], calls[k][2], rows, cols)
         IN  IF r.err # "none"
             THEN r
             ELSE activate_nodes_loop(r.active, calls, k + 1, rows, cols)

\* activate_nodes_calls with both limits included in the ranges
activate_nodes_calls_inclusive(row, col, row_limit, col_limit) ==
    LET h == Max(0, row_limit - row + 1)
        w == Max(0, col_limit - col + 1)
    IN  [k \in 1..(h * w) |-> <<row + ((k - 1) \div w), col + ((k - 1) % w)>>]

\* the (y, x) pairs of "for y in range(row, row_limit): for x in range(col, col_limit)"
activate_nodes_calls(row, col, row_limit, col_limit) ==
    LET h == Max(0, row_limit - row)
        w == Max(0, col_limit - col)
    IN  [k \in 1..(h * w) |-> <<row + ((k - 1) \div w), col + ((k - 1) % w)>>]

activate_nodes_result(act, row, col, row_limit, col_limit, rows, cols) ==
    activate_nodes_loop(act, activate_nodes_calls(row, col, row_limit, col_limit),
                        1, rows, cols)

\* activate_node that drops the border analysis when it activates a node
activate_node_invalidating(row, col) ==
    LET r == activate_node_result(active, row, col, num_rows, num_cols)
        changed == r.active # active
    IN  /\ active' = r.active
        /\ err' = r.err
        /\ ret' = None
        /\ op' = <<"activate_node">>
        /\ border_nodes' = IF changed THEN None ELSE border_nodes
        /\ leftmost_node' = IF changed THEN None ELSE leftmost_node
        /\ leftmost_node_pos' = IF changed THEN None ELSE leftmost_node_pos
        /\ UNCHANGED <<num_rows, num_cols, border, mission_vars, box_vars, adj,
                       robot_vars>>

activate_node(row, col) ==
    LET r == activate_node_result(active, row, col, num_rows, num_cols)
    IN  /\ active' = r.active
        /\ err' = r.err
        /\ ret' = None
        /\ op' = <<"activate_node">>
        /\ UNCHANGED <<num_rows, num_cols, border, border_nodes, leftmost_node,
                       leftmost_node_pos, mission_vars, box_vars, adj,
                       robot_vars>>

activate_nodes(row, col, row_limit, col_limit) ==
    LET r == activate_nodes_result(active, row, col, row_limit, col_limit,
                                   num_rows, num_cols)
    IN  /\ active' = r.active
        /\ err' = r.err
        /\ ret' = None
        /\ op' = <<"activate_nodes">>
        /\ UNCHANGED <<num_rows, num_cols, border, border_nodes, leftmost_node,
                       leftmost_node_pos, mission_vars, box_vars, adj,
                       robot_vars>>

--------------------------------------------------------------------------
\* Border analysis.

\* Node.is_active_node() / Node.is_active(): the active flag of the node of cell p
is_active_node(act, p) == p \in act

\* Grid.is_on_border(row, col, row_limit, col_limit)
is_on_border(act, row, col, row_limit, col_limit) ==
    LET min_col == Max(0, col - 1)
        min_row == Max(0, row - 1)
        max_col == Min(col_limit, col + 1)
        max_row == Min(row_limit, row + 1)
    IN  IF min_col = 0 \/ min_row = 0 \/ max_col = col_limit \/ max_row = row_limit
        THEN TRUE
        ELSE \E c \in min_col..(max_col - 1) :
                 \E r \in min_row..(max_row - 1) : ~is_active_node(act, <<r, c>>)

\* leftmost_update with "<=" for "<": a later row of the same column wins
leftmost_update_last(lpos, col) == lpos = None \/ col <= lpos[1][2]

\* the test of line 185 that replaces the leftmost node found so far
leftmost_update(lpos, col) == lpos = None \/ col < lpos[1][2]

\* find_border_step without the test of the active flag
find_border_step_inactive(act, st, row, col, rows, cols) ==
    IF is_on_border(act, row, col, rows - 1, cols - 1)
    THEN LET upd == leftmost_update(st.leftmost_node_pos, col)
         IN  [border |-> st.border \cup {<<row, col>>},
              border_list |-> Append(st.border_list, <<row, col>>),
              leftmost_node |-> IF upd THEN Some(<<row, col>>) ELSE st.leftmost_node,
              leftmost_node_pos |-> IF upd THEN Some(<<row, col>>)
                                    ELSE st.leftmost_node_pos]
    ELSE st

\* One pass of the loop body of find_border_nodes over cell number k of the
\* row-major scan; st holds the locals border_list, leftmost_node,
\* leftmost_node_pos and the border flags set so far.
find_border_step(act, st, row, col, rows, cols) ==
    IF is_active_node(act, <<row, col>>) /\ is_on_border(act, row, col, rows - 1, cols - 1)
    THEN LET upd == leftmost_update(st.leftmost_node_pos, col)
         IN  [border |-> st.border \cup {<<row, col>>},
              border_list |-> Append(st.border_list, <<row, col>>),
              leftmost_node |-> IF upd THEN Some(<<row, col>>) ELSE st.leftmost_node,
              leftmost_node_pos |-> IF upd THEN Some(<<row, col>>)
                                    ELSE st.leftmost_node_pos]
    ELSE st

RECURSIVE find_border_scan(_, _, _, _, _)
find_border_scan(act, st, k, rows, cols) ==
    IF k >= rows * cols
    THEN st
    ELSE find_border_scan(act, find_border_step(act, st, k \div cols, k % cols, rows, cols),
                          k + 1, rows, cols)

\* Grid.find_border_nodes(): the locals when the scan ends
find_border_result(act, flags, rows, cols) ==
    find_border_scan(act,
                     [border |-> flags, border_list |-> <<>>,
                      leftmost_node |-> None, leftmost_node_pos |-> None],
                     0, rows, cols)

find_border_nodes ==
    LET st == find_border_result(active, border, num_rows, num_cols)
    IN  /\ border' = st.border
        /\ border_nodes' = Some(st.border_list)
        /\ leftmost_node' = st.leftmost_node
        /\ leftmost_node_pos' = st.leftmost_node_pos
        /\ op' = <<"find_border_nodes">>
        /\ ret' = None
        /\ err' = "none"
        /\ UNCHANGED <<num_rows, num_cols, active, mission_vars, box_vars, adj,
                       robot_vars>>

--------------------------------------------------------------------------
\* Standard traversal generators.  A generator returns the record
\* [waypoints, err]: the list it returns and "none", or the exception raised.

\* node_list[row, col]: the cell read, None when the index raises IndexError
node_at(row, col, rows, cols) ==
    IF IndexOk(row, rows) /\ IndexOk(col, cols)
    THEN Some(<<NormIndex(row, rows), NormIndex(col, cols)>>)
    ELSE None

\* get_all_lawnmower_cell with the odd columns walked upwards too
get_all_lawnmower_cell_noflip(k, rows, cols) ==
    node_at(k % rows, k \div rows, rows, cols)

\* Grid.get_all_lawnmower_waypoints(): pass number k of the inner loop body has
\* i = k \div rows and j = k % rows.
get_all_lawnmower_cell(k, rows, cols) ==
    LET i == k \div rows
        j == k % rows
    IN  IF i % 2 = 0
        THEN node_at(j, i, rows, cols)
        ELSE LET row_index == rows - (j + 1)
             IN  node_at(row_index, i, rows, cols)

get_all_lawnmower_waypoints(rows, cols) ==
    [waypoints |-> [n \in 1..(rows * cols) |-> get_all_lawnmower_cell(n - 1, rows, cols)[1]],
     err |-> "none"]

\* get_border_lawnmower_column with every column appended bottom first
get_border_lawnmower_column_noflip(i, rows, cols) ==
    <<node_at(0, i, rows, cols)[1], node_at(rows - 1, i, rows, cols)[1]>>

\* Grid.get_border_lawnmower_waypoints(): the two nodes appended for column i
get_border_lawnmower_column(i, rows, cols) ==
    IF i % 2 = 0
    THEN <<node_at(0, i, rows, cols)[1], node_at(rows - 1, i, rows, cols)[1]>>
    ELSE <<node_at(rows - 1, i, rows, cols)[1], node_at(0, i, rows, cols)[1]>>

get_border_lawnmower_waypoints(rows, cols) ==
    [waypoints |-> [n \in 1..(2 * cols) |->
                       get_border_lawnmower_column((n - 1) \div 2, rows, cols)[((n - 1) % 2) + 1]],
     err |-> "none"]

\* Grid.get_spiral_waypoints()
step_col == <<1, 0, -1, 0>>

step_row == <<0, 1, 0, -1>>

\* spiral_can_advance without the "not ... in waypoints" test
spiral_can_advance_unseen(next_row, next_col, rows, cols, waypoints) ==
    /\ 0 <= next_col /\ next_col < cols
    /\ 0 <= next_row /\ next_row < rows

\* the test of line 285: the next cell is inside the grid and not yet a waypoint
spiral_can_advance(next_row, next_col, rows, cols, waypoints) ==
    /\ 0 <= next_col /\ next_col < cols
    /\ 0 <= next_row /\ next_row < rows
    /\ ~InList(<<next_row, next_col>>, waypoints)

\* One pass of the loop body; st holds row, col, turn_state (0..3), waypoints
\* and reads, the indices of every node_list[row, col] of line 281 read so far.
spiral_step(st, rows, cols) ==
    LET node == node_at(st.row, st.col, rows, cols)
        waypoints == Append(st.waypoints, node[1])
        next_col == st.col + step_col[st.turn_state + 1]
        next_row == st.row + step_row[st.turn_state + 1]
        turned == (st.turn_state + 1) % 4
    IN  IF node = None
        THEN [st EXCEPT !.err = "IndexError", !.reads = Append(@, <<st.row, st.col>>)]
        ELSE IF spiral_can_advance(next_row, next_col, rows, cols, waypoints)
        THEN [st EXCEPT !.waypoints = waypoints,
                        !.reads = Append(@, <<st.row, st.col>>),
                        !.col = next_col, !.row = next_row]
        ELSE [st EXCEPT !.waypoints = waypoints,
                        !.reads = Append(@, <<st.row, st.col>>),
                        !.turn_state = turned,
                        !.col = st.col + step_col[turned + 1],
                        !.row = st.row + step_row[turned + 1]]

RECURSIVE spiral_loop(_, _, _, _)
spiral_loop(st, n, rows, cols) ==
    IF n = 0 \/ st.err # "none"
    THEN st
    ELSE spiral_loop(spiral_step(st, rows, cols), n - 1, rows, cols)

\* the locals when the for loop of get_spiral_waypoints ends
spiral_run(rows, cols) ==
    spiral_loop([row |-> 0, col |-> 0, turn_state |-> 0, waypoints |-> <<>>,
                 reads |-> <<>>, err |-> "none"],
                rows * cols, rows, cols)

get_spiral_waypoints(rows, cols) ==
    LET st == spiral_run(rows, cols)
    IN  IF st.err # "none"
        THEN [waypoints |-> <<>>, err |-> st.err]
        ELSE [waypoints |-> Reverse(st.waypoints), err |-> "none"]

--------------------------------------------------------------------------
\* Adjustable traversal (grid.py, lines 194-258).

\* Grid.get_neighbor_node(row, col, row_max, col_max): the active node of the
\* cell, None when the cell is outside 0..row_max-1 x 0..col_max-1 or its
\* node is inactive
get_neighbor_node(act, row, col, row_max, col_max) ==
    IF row < 0 \/ row >= row_max \/ col < 0 \/ col >= col_max
    THEN None
    ELSE IF ~is_active_node(act, <<row, col>>) THEN None ELSE Some(<<row, col>>)

\* node_list.append(node), node_list being the numpy array self.nodes (line
\* 219): an ndarray has no append
node_list_append == "AttributeError"

\* The local rows is an unbounded integer; the code only compares it with
\* row, which stays in 0..num_rows-1, so the values up to 0 are kept as 0 and
\* the values from num_rows on as num_rows.
clamp_rows(v, n) == Max(0, Min(n, v))

\* grid.get_all_lawnmower_waypoints_adjustable() is called: lines 219-225.
\* Unpacking leftmost_node_pos raises TypeError when it is None.
get_all_lawnmower_waypoints_adjustable ==
    /\ adj.pc \notin {"while", "body"}
    /\ op' = <<"get_all_lawnmower_waypoints_adjustable">>
    /\ ret' = None
    /\ IF leftmost_node_pos = None
       THEN /\ err' = "TypeError"
            /\ adj' = [AdjIdle EXCEPT !.pc = "raised"]
       ELSE /\ err' = "none"
            /\ adj' = [pc |-> "while",
                       row |-> leftmost_node_pos[1][1],
                       col |-> leftmost_node_pos[1][2],
                       rows |-> num_rows,
                       cols |-> num_cols,
                       phase |-> "DOWN",
                       waypoints |-> <<leftmost_node[1]>>]
    /\ UNCHANGED <<grid_vars, mission_vars, box_vars, robot_vars>>

\* "while (phase != WaypointPhase.TERMINATE):" (line 227); the method has no
\* return statement
adjustable_while ==
    /\ adj.pc = "while"
    /\ adj' = [adj EXCEPT !.pc = IF adj.phase # "TERMINATE" THEN "body"
                                 ELSE "returned"]
    /\ UNCHANGED <<grid_vars, mission_vars, box_vars, robot_vars, op, ret, err>>

\* the locals after one pass of the loop body (lines 228-258), and the
\* exception it raises
adjustable_pass(act, a) ==
    LET moving == a.phase \in {"UP", "DOWN"}
        nrow == IF a.phase = "UP" THEN a.row - 1
                ELSE IF a.phase = "DOWN" THEN a.row + 1 ELSE a.row
        ncol == IF moving THEN a.col ELSE a.col + 1
        neighbor == get_neighbor_node(act, nrow, ncol, a.rows, a.cols)
    IN  IF a.phase \notin {"UP", "DOWN", "UP_RIGHT", "DOWN_RIGHT"}
        THEN [locals |-> a, err |-> "none"]
        ELSE IF neighbor # None
        THEN [locals |-> a, err |-> node_list_append]
        ELSE [locals |->
                  CASE a.phase = "UP" -> [a EXCEPT !.phase = "DOWN_RIGHT"]
                    [] a.phase = "DOWN" -> [a EXCEPT !.phase = "UP_RIGHT"]
                    [] a.phase = "UP_RIGHT" ->
                           [a EXCEPT !.rows = clamp_rows(a.rows - 1, num_rows)]
                    [] a.phase = "DOWN_RIGHT" ->
                           [a EXCEPT !.rows = clamp_rows(a.rows + 1, num_rows)],
              err |-> "none"]

adjustable_body ==
    LET r == adjustable_pass(active, adj)
    IN  /\ adj.pc = "body"
        /\ err' = r.err
        /\ adj' = [r.locals EXCEPT !.pc = IF r.err = "none" THEN "while"
                                          ELSE "raised"]
        /\ UNCHANGED <<grid_vars, mission_vars, box_vars, robot_vars, op, ret>>

--------------------------------------------------------------------------
\* Grid.get_waypoints(mode) and Mission.__init__.
\* A mode value is <<"str", s>> for the Python string s and
\* <<"ControlMode", m>> for the member m of the enumeration ControlMode.

Str(s) == <<"str", s>>

ControlMode(m) == <<"ControlMode", m>>

\* the names src/engine/mission.py binds at module level (lines 1-8)
mission_module_names ==
    {"deque", "Grid", "Phase", "get_vincenty_x", "get_vincenty_y", "math", "Mission"}

\* "from engine.mission import ControlMode" (line 362)
import_ControlMode ==
    IF "ControlMode" \in mission_module_names THEN "none" ELSE "ImportError"

get_waypoints_result(mode, rows, cols) ==
    IF import_ControlMode # "none"
    THEN [waypoints |-> <<>>, err |-> import_ControlMode]
    ELSE IF mode = ControlMode("LAWNMOWER_FULL")
    THEN get_all_lawnmower_waypoints(rows, cols)
    ELSE IF mode = ControlMode("LAWNMOWER_BORDERS")
    THEN get_border_lawnmower_waypoints(rows, cols)
    ELSE IF mode = ControlMode("SPIRAL")
    THEN get_spiral_waypoints(rows, cols)
    ELSE [waypoints |-> <<>>, err |-> "none"]

\* what a call leaves in ret: the list, or None when it raised
Returned(r) == IF r.err = "none" THEN Some(r.waypoints) ELSE None

get_waypoints(mode) ==
    LET r == get_waypoints_result(mode, num_rows, num_cols)
    IN  /\ op' = <<"get_waypoints", mode>>
        /\ ret' = Returned(r)
        /\ err' = r.err
        /\ UNCHANGED <<grid_vars, mission_vars, box_vars, adj, robot_vars>>

\* Mission(robot, grid, grid_mode): lines 30-31; an exception of get_waypoints
\* leaves no Mission object.
Mission(grid_mode) ==
    LET r == get_waypoints_result(grid_mode, num_rows, num_cols)
    IN  /\ op' = <<"Mission", grid_mode>>
        /\ ret' = None
        /\ err' = r.err
        /\ all_waypoints' = IF r.err = "none" THEN Some(r.waypoints) ELSE all_waypoints
        /\ waypoints_to_visit' = IF r.err = "none" THEN Some(r.waypoints)
                                 ELSE waypoints_to_visit
        /\ UNCHANGED <<grid_vars, box_vars, adj, robot_vars>>

\* the grid_mode default of Mission.__init__ (line 9)
default_grid_mode == Str("borders")

\* the mode values the callers under src/ pass (grid_test.py 67, 74, 80;
\* mission.py 9; traverse_standard_test.py 48), the third mode the
\* configuration names, and a value that names no mode
ModeInputs ==
    {Str("full"), Str("borders"), Str("spiral"), Str("lawn_border"), Str("zigzag")}

\* direct calls of the three generators
call_get_all_lawnmower_waypoints ==
    LET r == get_all_lawnmower_waypoints(num_rows, num_cols)
    IN  /\ op' = <<"get_all_lawnmower_waypoints">>
        /\ ret' = Returned(r)
        /\ err' = r.err
        /\ UNCHANGED <<grid_vars, mission_vars, box_vars, adj, robot_vars>>

call_get_border_lawnmower_waypoints ==
    LET r == get_border_lawnmower_waypoints(num_rows, num_cols)
    IN  /\ op' = <<"get_border_lawnmower_waypoints">>
        /\ ret' = Returned(r)
        /\ err' = r.err
        /\ UNCHANGED <<grid_vars, mission_vars, box_vars, adj, robot_vars>>

call_get_spiral_waypoints ==
    LET r == get_spiral_waypoints(num_rows, num_cols)
    IN  /\ op' = <<"get_spiral_waypoints">>
        /\ ret' = Returned(r)
        /\ err' = r.err
        /\ UNCHANGED <<grid_vars, mission_vars, box_vars, adj, robot_vars>>

--------------------------------------------------------------------------
\* Robot (src/engine/robot.py).

\* class Phase(Enum): Phase[n] is the member of value n
Phase == <<"SETUP", "TRAVERSE", "AVOID_OBSTACLE", "RETURN", "DOCKING", "COMPLETE",
           "FAULT">>

\* Robot.state is kept rounded to three decimals (np.round(..., 3), lines 92,
\* 103-104): positions are whole millimetres.
MM == 1000

\* The heading is counted in turns of roomba_mover's turn_dist, 0.5233 rad
\* (line 176), which is a twelfth of a circle to within 0.0003 rad.
TurnsPerCircle == 12

Headings == 0..(TurnsPerCircle - 1)

\* the positions the robot of a lawn_mover run can take: whole metres inside
\* the box of the grid widened by Margin
Window(rows, cols) ==
    {MM * v : v \in (0 - Margin)..((cols - 1) * STEP_SIZE_METERS + Margin)}
        \X {MM * v : v \in (0 - Margin)..((rows - 1) * STEP_SIZE_METERS + Margin)}

\* Node.get_coords(): the local (x, y) of the node of cell p, east and north
\* of the origin node
get_coords(p) == <<p[2] * STEP_SIZE_METERS * MM, p[1] * STEP_SIZE_METERS * MM>>

\* math.hypot(wp[0] - st[0], wp[1] - st[1]) squared
Dist2(st, wp) ==
    (wp[1] - st[1]) * (wp[1] - st[1]) + (wp[2] - st[2]) * (wp[2] - st[2])

\* np.random.normal(self.state[k], self.position_noise) for k = 0, 1 (lines
\* 145-146): the positions of the window at most position_noise metres from
\* the present one on each axis; the present one alone when the noise is 0.
noise_targets(st, noise, rows, cols) ==
    {<<q[1], q[2], st[3]>> : q \in
        {w \in Window(rows, cols) :
            /\ w[1] - st[1] \in (0 - MM * noise)..(MM * noise)
            /\ w[2] - st[2] \in (0 - MM * noise)..(MM * noise)}}

\* The states travel can leave in a pass of the control loop of lawn_mover
\* (lines 148-160: PID, feedback_lin, limit_cmds, integrate_odom): any
\* position of the window at most one metre away on each axis, the present
\* one included, the heading at most one turn away.
travel_targets(st, rows, cols) ==
    {<<q[1], q[2], h>> :
        q \in {w \in Window(rows, cols) :
                  /\ w[1] - st[1] \in (0 - MM)..MM
                  /\ w[2] - st[2] \in (0 - MM)..MM},
        h \in {(st[3] + d) % TurnsPerCircle : d \in {0, 1, TurnsPerCircle - 1}}}

\* truthpose after a movement that leaves the state st, without the test of
\* is_sim
append_truthpose_always(tp, st, sim) == Append(tp, st)

\* "if self.is_sim: self.truthpose = np.append(self.truthpose, ...)" (lines
\* 95-96, 106-107, 113-114)
append_truthpose(tp, st, sim) == IF sim THEN Append(tp, st) ELSE tp

\* the truthpose of the model has room for another row
CanLog == ~is_sim \/ Len(truthpose) < MaxLog

\* lawn_mover_keeps_moving with the tolerance one metre too wide
lawn_mover_keeps_moving_wide(st, wp, allowed) ==
    Dist2(st, wp) > (allowed + MM) * (allowed + MM)

\* "while distance_away > allowed_dist_error" (line 144)
lawn_mover_keeps_moving(st, wp, allowed) == Dist2(st, wp) > allowed * allowed

\* deque.pop(): the last element is removed
popleft_from_right(q) == SubSeq(q, 1, Len(q) - 1)

\* deque.rotate(-1): the first element goes to the end
popleft_rotating(q) == Tail(q) \o <<Head(q)>>

\* deque.popleft() (line 168)
popleft(q) == Tail(q)

\* execute_traversal has no return statement: what it returns when the
\* mover it called returned r
execute_traversal_return(r) == None

\* the members of Control_Mode that execute_traversal is called with
ControlModeInputs == {"LAWNMOVER", "MANUAL"}

NoCall == stack = <<>> /\ mpc \notin {"while", "body"}

\* robot.lawn_mover(waypoints_to_visit, allowed_dist_error), called as the
\* traversal test calls it
lawn_mover ==
    /\ NoCall
    /\ phase # "none"
    /\ waypoints_to_visit # None
    /\ stack' = <<"lawn_mover">>
    /\ lpc' = "while"
    /\ reached' = 0
    /\ op' = <<"lawn_mover", waypoints_to_visit[1], allowed_dist_error>>
    /\ ret' = None
    /\ err' = "none"
    /\ UNCHANGED <<grid_vars, mission_vars, box_vars, adj, sim_vars, phase, state,
                   allowed_dist_error, mpc>>

\* robot.execute_traversal(waypoints_to_visit, allowed_dist_error, grid,
\* control_mode, time_limit): LAWNMOVER calls lawn_mover, MANUAL matches no
\* case.
execute_traversal(control_mode) ==
    /\ NoCall
    /\ phase # "none"
    /\ waypoints_to_visit # None
    /\ op' = <<"execute_traversal", waypoints_to_visit[1], allowed_dist_error,
               control_mode>>
    /\ err' = "none"
    /\ reached' = 0
    /\ IF control_mode = "LAWNMOVER"
       THEN /\ stack' = <<"execute_traversal", "lawn_mover">>
            /\ lpc' = "while"
            /\ ret' = None
       ELSE /\ stack' = <<>>
            /\ lpc' = "idle"
            /\ ret' = execute_traversal_return(None)
    /\ UNCHANGED <<grid_vars, mission_vars, box_vars, adj, sim_vars, phase, state,
                   allowed_dist_error, mpc>>

\* the test of the outer loop when it stops with one waypoint left
unvisited_waypoints_but_last(q) == Len(q) > 1

\* the truth value of the deque in "while unvisited_waypoints:" (line 139)
unvisited_waypoints(q) == q # <<>>

\* "while unvisited_waypoints:" (line 139): a waypoint is left, and lines
\* 140-142 measure the distance to it; or none is left, and lines 170-171 set
\* the phase and return the deque.
lawn_mover_while ==
    /\ lpc = "while"
    /\ IF unvisited_waypoints(waypoints_to_visit[1])
       THEN /\ lpc' = "inner"
            /\ UNCHANGED <<phase, stack, ret>>
       ELSE /\ phase' = "COMPLETE"
            /\ lpc' = "idle"
            /\ stack' = <<>>
            /\ ret' = IF Head(stack) = "execute_traversal"
                      THEN execute_traversal_return(waypoints_to_visit)
                      ELSE waypoints_to_visit
    /\ UNCHANGED <<grid_vars, mission_vars, box_vars, adj, sim_vars, state, allowed_dist_error,
                   mpc, reached, op, err>>

\* a pass of the inner loop begins (line 144) and lines 145-146 write the
\* noisy position into self.state
lawn_mover_localize ==
    /\ lpc = "inner"
    /\ lawn_mover_keeps_moving(state, get_coords(Head(waypoints_to_visit[1])),
                               allowed_dist_error)
    /\ state' \in noise_targets(state, position_noise, num_rows, num_cols)
    /\ lpc' = "control"
    /\ UNCHANGED <<grid_vars, mission_vars, box_vars, adj, sim_vars, phase,
                   allowed_dist_error, mpc, stack, reached, op, ret, err>>

\* the rest of the pass (lines 148-167): the commands are computed and
\* travel moves the robot
lawn_mover_control_step ==
    /\ lpc = "control"
    /\ CanLog
    /\ state' \in travel_targets(state, num_rows, num_cols)
    /\ truthpose' = append_truthpose(truthpose, state', is_sim)
    /\ lpc' = "inner"
    /\ UNCHANGED <<grid_vars, mission_vars, box_vars, adj, is_sim, position_noise,
                   rb, phase, allowed_dist_error, mpc, stack, reached, op, ret,
                   err>>

\* the inner loop ends and line 168 removes the waypoint
lawn_mover_popleft ==
    /\ lpc = "inner"
    /\ ~lawn_mover_keeps_moving(state, get_coords(Head(waypoints_to_visit[1])),
                                allowed_dist_error)
    /\ waypoints_to_visit' = Some(popleft(waypoints_to_visit[1]))
    /\ reached' = reached + 1
    /\ lpc' = "while"
    /\ UNCHANGED <<grid_vars, all_waypoints, box_vars, adj, sim_vars, phase, state,
                   allowed_dist_error, mpc, stack, op, ret, err>>

--------------------------------------------------------------------------
\* Robot.travel, Robot.move_forward, Robot.turn and Robot.roomba_mover
\* (src/engine/robot.py, lines 90-114 and 173-195).

\* 1000 * math.cos of the heading of h turns, h = 0..11, to the millimetre
Cos1000 == <<1000, 866, 500, 0, -500, -866, -1000, -866, -500, 0, 500, 866>>

cos_mm(h) == Cos1000[h + 1]

\* sin(a) = cos(a - pi / 2), a quarter of a circle back
sin_mm(h) == Cos1000[((h + TurnsPerCircle - TurnsPerCircle \div 4)
                        % TurnsPerCircle) + 1]

\* move_forward(dist), dist in metres (lines 101-104): new_x and new_y are
\* both computed from self.state[0]
move_forward_state(st, dist) ==
    <<st[1] + dist * cos_mm(st[3]), st[1] + dist * sin_mm(st[3]), st[3]>>

\* turn(turn_angle), turn_angle in turns (lines 111-112)
turn_state(st, turn_angle) ==
    <<st[1], st[2], (st[3] + turn_angle) % TurnsPerCircle>>

\* the arguments the direct calls are made with: a metre forward or back,
\* turn_dist or a quarter of a circle
MoveInputs == {-1, 1}
TurnInputs == {1, TurnsPerCircle \div 4}

\* no method of the robot is running
RobotIdle == NoCall /\ rb.pc = "idle" /\ phase # "none"

\* robot.travel(dist, turn_angle) (lines 90-96)
travel ==
    /\ RobotIdle
    /\ CanLog
    /\ state' \in travel_targets(state, num_rows, num_cols)
    /\ truthpose' = append_truthpose(truthpose, state', is_sim)
    /\ op' = <<"travel">>
    /\ ret' = None
    /\ err' = "none"
    /\ UNCHANGED <<grid_vars, mission_vars, box_vars, adj, is_sim, position_noise,
                   rb, phase, allowed_dist_error, mpc, stack, lpc, reached>>

\* robot.move_forward(dist) (lines 98-107), for the calls that leave the
\* robot on a position of the window
move_forward(dist) ==
    /\ RobotIdle
    /\ CanLog
    /\ state' = move_forward_state(state, dist)
    /\ <<state'[1], state'[2]>> \in Window(num_rows, num_cols)
    /\ truthpose' = append_truthpose(truthpose, state', is_sim)
    /\ op' = <<"move_forward", dist>>
    /\ ret' = None
    /\ err' = "none"
    /\ UNCHANGED <<grid_vars, mission_vars, box_vars, adj, is_sim, position_noise,
                   rb, phase, allowed_dist_error, mpc, stack, lpc, reached>>

\* robot.turn(turn_angle) (lines 109-114)
turn(turn_angle) ==
    /\ RobotIdle
    /\ CanLog
    /\ state' = turn_state(state, turn_angle)
    /\ truthpose' = append_truthpose(truthpose, state', is_sim)
    /\ op' = <<"turn", turn_angle>>
    /\ ret' = None
    /\ err' = "none"
    /\ UNCHANGED <<grid_vars, mission_vars, box_vars, adj, is_sim, position_noise,
                   rb, phase, allowed_dist_error, mpc, stack, lpc, reached>>

\* "move_dist = 3" (line 175), metres
move_dist == 3

\* "turn_dist = .5233" (line 176), one turn
turn_dist == 1

\* metres in a degree of longitude at the latitude of the tests (42.44 N); a
\* degree of latitude is longer
MetresPerDegree == 82000

\* "curr_x < 0 or curr_x > (grid.long_max-grid.long_min)" (lines 184-185):
\* coordinate c, millimetres of the local frame, is compared as metres with
\* the span of the box in degrees; extent is that span in metres
roomba_out_of_bound(c, extent) == c < 0 \/ c * MetresPerDegree > extent * MM

\* robot.roomba_mover(grid, time_limit): lines 175-178
roomba_mover(time_limit) ==
    /\ RobotIdle
    /\ rb' = [pc |-> "while", dt |-> 0, time_limit |-> time_limit]
    /\ op' = <<"roomba_mover", time_limit>>
    /\ ret' = None
    /\ err' = "none"
    /\ UNCHANGED <<grid_vars, mission_vars, box_vars, adj, truthpose, is_sim,
                   position_noise, phase, state, allowed_dist_error, mpc,
                   stack, lpc, reached>>

\* one pass of "while not exit_boolean" (lines 180-193), and lines 194-195
\* when the test of line 193 ends the loop
roomba_mover_pass ==
    /\ rb.pc = "while"
    /\ LET out == \/ roomba_out_of_bound(state[1], x_extent)
                  \/ roomba_out_of_bound(state[2], y_extent)
           back == move_forward_state(state, 0 - move_dist)
           dt == rb.dt + rb.dt
       IN  /\ ~is_sim \/ Len(truthpose) + (IF out THEN 2 ELSE 1) <= MaxLog
           /\ IF out
              THEN /\ state' = turn_state(back, turn_dist)
                   /\ truthpose' =
                          append_truthpose(
                              append_truthpose(truthpose, back, is_sim),
                              state', is_sim)
              ELSE /\ state' = move_forward_state(state, move_dist)
                   /\ truthpose' = append_truthpose(truthpose, state', is_sim)
           /\ IF dt > rb.time_limit
              THEN /\ phase' = "COMPLETE"
                   /\ rb' = [rb EXCEPT !.pc = "idle", !.dt = dt]
              ELSE /\ phase' = phase
                   /\ rb' = [rb EXCEPT !.dt = dt]
    /\ UNCHANGED <<grid_vars, mission_vars, box_vars, adj, is_sim, position_noise,
                   allowed_dist_error, mpc, stack, lpc, reached, op, ret, err>>

--------------------------------------------------------------------------
\* Mission.execute_mission (src/engine/mission.py, lines 43-64).

\* the methods class Robot defines that execute_mission calls, with the
\* number of parameters after self
robot_method_params ==
    [m \in {"execute_setup", "execute_traversal", "execute_avoid_obstacle",
            "execute_return"} |->
        IF m = "execute_traversal" THEN 5 ELSE 0]

\* robot.name(nargs arguments): the exception the call raises before the
\* body of the method runs
call_robot_method(name, nargs) ==
    IF name \notin DOMAIN robot_method_params
    THEN "AttributeError"
    ELSE IF nargs # robot_method_params[name] THEN "TypeError" ELSE "none"

\* the branch of the if/elif chain taken in phase ph: the method called and
\* the number of arguments passed; <<>> when no branch is taken
execute_mission_branch(ph) ==
    CASE ph = "SETUP" -> <<"execute_setup", 0>>
      [] ph = "TRAVERSE" -> <<"execute_traversal", 2>>
      [] ph = "AVOID_OBSTACLE" -> <<"execute_avoid_obstacle", 0>>
      [] ph = "RETURN" -> <<"execute_return", 4>>
      [] ph = "DOCKING" -> <<"execute_docking", 0>>
      [] OTHER -> <<>>

\* Robot.execute_setup and Robot.execute_avoid_obstacle: "pass"
execute_setup(ph) == ph

execute_avoid_obstacle(ph) == ph

\* mission.execute_mission() is called
execute_mission ==
    /\ NoCall
    /\ mpc = "idle"
    /\ phase # "none"
    /\ mpc' = "while"
    /\ op' = <<"execute_mission">>
    /\ ret' = None
    /\ err' = "none"
    /\ UNCHANGED <<grid_vars, mission_vars, box_vars, adj, sim_vars, phase, state,
                   allowed_dist_error, stack, lpc, reached>>

\* "while self.robot.phase != Phase.COMPLETE:" (line 49)
execute_mission_while ==
    /\ mpc = "while"
    /\ mpc' = IF phase # "COMPLETE" THEN "body" ELSE "returned"
    /\ UNCHANGED <<grid_vars, mission_vars, box_vars, adj, sim_vars, phase, state,
                   allowed_dist_error, stack, lpc, reached, op, ret, err>>

\* one pass of the loop body (lines 50-64).  Only execute_setup and
\* execute_avoid_obstacle accept the arguments they are called with.
execute_mission_body ==
    LET b == execute_mission_branch(phase)
        e == IF b = <<>> THEN "none" ELSE call_robot_method(b[1], b[2])
    IN  /\ mpc = "body"
        /\ err' = e
        /\ mpc' = IF e = "none" THEN "while" ELSE "raised"
        /\ phase' = IF e # "none" \/ b = <<>> THEN phase
                    ELSE IF b[1] = "execute_setup" THEN execute_setup(phase)
                    ELSE execute_avoid_obstacle(phase)
        /\ UNCHANGED <<grid_vars, mission_vars, box_vars, adj, sim_vars, state,
                       allowed_dist_error, stack, lpc, reached, op, ret>>

--------------------------------------------------------------------------
\* Specifications.

\* the extents of the boxes of 1..n whole steps
WholeSteps(n) == {STEP_SIZE_METERS * k : k \in 0..(n - 1)}

\* Spec: the life of one grid of at most MaxCells cells under any sequence of
\* calls.  Index arguments run one below and one above the valid range.  The
\* box is a whole number of steps long and wide.
Init ==
    \E yr \in WholeSteps(MaxCells) : \E xr \in WholeSteps(MaxCells) :
        /\ calc_step(yr, xr, STEP_SIZE_METERS)[1]
               * calc_step(yr, xr, STEP_SIZE_METERS)[2] <= MaxCells
        /\ GridInit(yr, xr)

Next ==
    \/ \E row \in -1..num_rows : \E col \in -1..num_cols : activate_node(row, col)
    \/ \E row \in -1..num_rows : \E row_limit \in 0..(num_rows + 1) :
           \E col \in -1..num_cols : \E col_limit \in 0..(num_cols + 1) :
               activate_nodes(row, col, row_limit, col_limit)
    \/ find_border_nodes
    \/ \E mode \in ModeInputs : get_waypoints(mode)
    \/ \E mode \in ModeInputs : Mission(mode)

Spec == Init /\ [][Next]_vars

\* SpecTraversal: the three generators on a fresh grid of every size up to
\* MaxDim x MaxDim.
InitTraversal ==
    \E yr \in 0..(STEP_SIZE_METERS * MaxDim - 1) :
        \E xr \in 0..(STEP_SIZE_METERS * MaxDim - 1) :
            GridInit(yr, xr)

NextTraversal ==
    \/ call_get_all_lawnmower_waypoints
    \/ call_get_border_lawnmower_waypoints
    \/ call_get_spiral_waypoints

SpecTraversal == InitTraversal /\ [][NextTraversal]_vars

\* SpecBorder: one border analysis of a grid of every size up to
\* MaxBorderDim x MaxBorderDim whose activation calls have left at most
\* MaxHoles nodes active, or all but at most MaxHoles.
RECURSIVE SmallSubsets(_, _)
SmallSubsets(S, k) ==
    IF k = 0
    THEN {{}}
    ELSE LET P == SmallSubsets(S, k - 1)
         IN  P \cup {q \cup {x} : q \in P, x \in S}

InitBorder ==
    \E yr \in WholeSteps(MaxBorderDim) :
        \E xr \in WholeSteps(MaxBorderDim) :
            LET dims == calc_step(yr, xr, STEP_SIZE_METERS)
                all == Cells(dims[1], dims[2])
            IN  \E S \in SmallSubsets(all, MaxHoles) :
                    \E act \in {S, all \ S} :
                        /\ y_extent = yr
                        /\ x_extent = xr
                        /\ nodes = generate_nodes(dims[1], dims[2])
                        /\ adj = AdjIdle
                        /\ NoRobot
                        /\ num_rows = dims[1]
                        /\ num_cols = dims[2]
                        /\ active = act
                        /\ border = {}
                        /\ border_nodes = None
                        /\ leftmost_node = None
                        /\ leftmost_node_pos = None
                        /\ all_waypoints = None
                        /\ waypoints_to_visit = None
                        /\ op = <<"activate_nodes">>
                        /\ ret = None
                        /\ err = "none"

NextBorder == find_border_nodes

SpecBorder == InitBorder /\ [][NextBorder]_vars

\* SpecAdjustable: border analysis and the adjustable lawnmower generator on
\* a grid of every size up to MaxAdjDim x MaxAdjDim with every activation
\* pattern.  The generator's loop runs on: weak fairness of its steps.
InitAdjustable ==
    \E yr \in WholeSteps(MaxAdjDim) : \E xr \in WholeSteps(MaxAdjDim) :
        LET dims == calc_step(yr, xr, STEP_SIZE_METERS)
        IN  \E act \in SUBSET Cells(dims[1], dims[2]) :
                /\ y_extent = yr
                /\ x_extent = xr
                /\ nodes = generate_nodes(dims[1], dims[2])
                /\ adj = AdjIdle
                /\ NoRobot
                /\ num_rows = dims[1]
                /\ num_cols = dims[2]
                /\ active = act
                /\ border = {}
                /\ border_nodes = None
                /\ leftmost_node = None
                /\ leftmost_node_pos = None
                /\ all_waypoints = None
                /\ waypoints_to_visit = None
                /\ op = <<"activate_nodes">>
                /\ ret = None
                /\ err = "none"

AdjustableLoop == adjustable_while \/ adjustable_body

NextAdjustable ==
    \/ adj.pc = "idle" /\ find_border_nodes
    \/ get_all_lawnmower_waypoints_adjustable
    \/ adjustable_while
    \/ adjustable_body

SpecAdjustable ==
    InitAdjustable /\ [][NextAdjustable]_vars /\ WF_vars(AdjustableLoop)

\* The state after Robot(x_pos, y_pos, ..., init_phase) and a Mission over a
\* new grid of at most MaxMissionDim x MaxMissionDim nodes whose waypoint
\* list is the output of one of the three generators, or is empty.
MissionQueues(rows, cols) ==
    {r.waypoints : r \in {q \in {get_all_lawnmower_waypoints(rows, cols),
                                  get_border_lawnmower_waypoints(rows, cols),
                                  get_spiral_waypoints(rows, cols)} :
                             q.err = "none"}} \cup {<<>>}

RobotInit(max_dim, init_phases, starts, headings, sims, noises) ==
    \E yr \in WholeSteps(max_dim) : \E xr \in WholeSteps(max_dim) :
        LET dims == calc_step(yr, xr, STEP_SIZE_METERS)
        IN  \E w \in MissionQueues(dims[1], dims[2]) :
                \E init_phase \in init_phases :
                    \E pos \in (starts \cap Window(dims[1], dims[2])) \X headings :
                        \E allowed \in 0..MaxDistError :
                          \E sim \in sims : \E noise \in noises :
                            /\ truthpose = <<<<pos[1][1], pos[1][2], pos[2]>>>>
                            /\ is_sim = sim
                            /\ position_noise = noise
                            /\ rb = RoombaIdle
                            /\ y_extent = yr
                            /\ x_extent = xr
                            /\ nodes = generate_nodes(dims[1], dims[2])
                            /\ adj = AdjIdle
                            /\ num_rows = dims[1]
                            /\ num_cols = dims[2]
                            /\ active = {}
                            /\ border = {}
                            /\ border_nodes = None
                            /\ leftmost_node = None
                            /\ leftmost_node_pos = None
                            /\ all_waypoints = Some(w)
                            /\ waypoints_to_visit = Some(w)
                            /\ phase = Phase[init_phase]
                            /\ state = <<pos[1][1], pos[1][2], pos[2]>>
                            /\ allowed_dist_error = MM * allowed
                            /\ mpc = "idle"
                            /\ stack = <<>>
                            /\ lpc = "idle"
                            /\ reached = 0
                            /\ op = <<"Mission">>
                            /\ ret = None
                            /\ err = "none"

\* a physical robot (is_sim false) without position noise, at the origin and
\* heading north as in the tests (x_pos = 0, y_pos = 0, heading = pi / 2,
\* three turns)
MissionInit(init_phases) ==
    RobotInit(MaxMissionDim, init_phases, {<<0, 0>>}, {3}, {FALSE}, {0})

\* SpecMission: execute_mission from every initial phase.  The mission loop
\* is the only thread and runs on: weak fairness of its steps.
InitMission == MissionInit(1..7)

NextMission ==
    \/ execute_mission
    \/ execute_mission_while
    \/ execute_mission_body

SpecMission == InitMission /\ [][NextMission]_vars /\ WF_vars(NextMission)

\* SpecLawnMover: the traversal methods called on a robot constructed with
\* the default init_phase (1) or the init_phase of the traversal tests (2).
InitLawnMover == MissionInit(1..2)

NextLawnMover ==
    \/ lawn_mover
    \/ \E control_mode \in ControlModeInputs : execute_traversal(control_mode)
    \/ lawn_mover_while
    \/ lawn_mover_localize
    \/ lawn_mover_control_step
    \/ lawn_mover_popleft

SpecLawnMover == InitLawnMover /\ [][NextLawnMover]_vars

\* SpecLawnMoverFair: SpecLawnMover when the thread that called lawn_mover
\* keeps running: weak fairness of the steps of the call.
LawnMoverLoop ==
    \/ lawn_mover_while
    \/ lawn_mover_localize
    \/ lawn_mover_control_step
    \/ lawn_mover_popleft

SpecLawnMoverFair == SpecLawnMover /\ WF_vars(LawnMoverLoop)

\* SpecSim: a robot over a grid of one node, simulated (is_sim true, the
\* default) or physical, heading east or north, under any sequence of calls
\* of travel, move_forward, turn and of the traversal methods.
InitSim == RobotInit(1, {2}, {<<0, 0>>}, {0, 3}, BOOLEAN, {0})

NextSim ==
    \/ travel
    \/ \E dist \in MoveInputs : move_forward(dist)
    \/ \E turn_angle \in TurnInputs : turn(turn_angle)
    \/ lawn_mover
    \/ \E control_mode \in ControlModeInputs : execute_traversal(control_mode)
    \/ lawn_mover_while
    \/ lawn_mover_localize
    \/ lawn_mover_control_step
    \/ lawn_mover_popleft

SpecSim == InitSim /\ [][NextSim]_vars

\* SpecNoisy: lawn_mover on a physical robot that starts anywhere in the
\* window of a grid of one node and whose position_noise is 0..MaxNoise
\* metres.
InitNoisy == RobotInit(1, {2}, Window(1, 1), {3}, {FALSE}, 0..MaxNoise)

SpecNoisy == InitNoisy /\ [][NextLawnMover]_vars

\* SpecRoomba: roomba_mover called on a physical robot anywhere in the
\* window, with a time_limit of -1..MaxTimeLimit.  The loop is the only
\* thread and runs on: weak fairness of its passes.
InitRoomba ==
    RobotInit(MaxMissionDim, {2}, Window(MaxMissionDim, MaxMissionDim),
              Headings, {FALSE}, {0})

NextRoomba ==
    \/ \E time_limit \in (0 - 1)..MaxTimeLimit : roomba_mover(time_limit)
    \/ roomba_mover_pass

SpecRoomba == InitRoomba /\ [][NextRoomba]_vars /\ WF_vars(roomba_mover_pass)

--------------------------------------------------------------------------
\* Properties of the traversal generators (SpecTraversal).

AllCells == Cells(num_rows, num_cols)

Abs(x) == IF x < 0 THEN -x ELSE x

\* cells a and b share a side
Adjacent4(a, b) == Abs(a[1] - b[1]) + Abs(a[2] - b[2]) = 1

\* how often cell p occurs in list w
Occurrences(p, w) == Cardinality({k \in 1..Len(w) : w[k] = p})

\* C1: the full lawnmower traversal returns num_rows*num_cols waypoints, holds
\* every node of the grid exactly once, starts at (row 0, col 0), walks the
\* columns in increasing order, even columns from row 0 up and odd columns from
\* row num_rows-1 down, and any two consecutive waypoints are 4-adjacent.
C1_FullLawnmower ==
    op = <<"get_all_lawnmower_waypoints">> =>
        /\ err = "none"
        /\ ret # None
        /\ LET w == ret[1]
           IN  /\ Len(w) = num_rows * num_cols
               /\ \A p \in AllCells : Occurrences(p, w) = 1
               /\ w[1] = <<0, 0>>
               /\ \A k \in 1..Len(w) :
                      /\ w[k][2] = (k - 1) \div num_rows
                      /\ w[k][1] = IF w[k][2] % 2 = 0
                                   THEN (k - 1) % num_rows
                                   ELSE num_rows - 1 - ((k - 1) % num_rows)
               /\ \A k \in 1..(Len(w) - 1) : Adjacent4(w[k], w[k + 1])

\* a full traversal of a grid with an odd and two even columns of several rows
C1_Witness ==
    /\ op = <<"get_all_lawnmower_waypoints">>
    /\ num_rows >= 3
    /\ num_cols >= 3
    /\ ret # None
    /\ Len(ret[1]) = num_rows * num_cols

\* the direction (0..3) of the cycle (+col, +row, -col, -row) that leads from
\* cell a to cell b, or 4 when none does
StepDir(a, b) ==
    IF \E d \in 0..3 : b[2] - a[2] = step_col[d + 1] /\ b[1] - a[1] = step_row[d + 1]
    THEN CHOOSE d \in 0..3 : b[2] - a[2] = step_col[d + 1] /\ b[1] - a[1] = step_row[d + 1]
    ELSE 4

\* C2: the spiral traversal returns num_rows*num_cols waypoints, no node twice,
\* reads no index outside the grid; the path before the reversal starts at
\* (row 0, col 0), every step goes to a 4-adjacent cell of the grid not visited
\* before, in the current direction of the cycle (+col, +row, -col, -row) or the
\* next one; the returned list ends at (row 0, col 0).
C2_Spiral ==
    op = <<"get_spiral_waypoints">> =>
        /\ err = "none"
        /\ ret # None
        /\ LET w == ret[1]
               path == Reverse(w)
               reads == spiral_run(num_rows, num_cols).reads
           IN  /\ Len(w) = num_rows * num_cols
               /\ \A p \in AllCells : Occurrences(p, w) = 1
               /\ \A k \in 1..Len(w) : w[k] \in AllCells
               /\ Len(reads) = num_rows * num_cols
               /\ \A k \in 1..Len(reads) : reads[k] \in AllCells
               /\ path[1] = <<0, 0>>
               /\ w[Len(w)] = <<0, 0>>
               /\ \A k \in 1..(Len(path) - 1) :
                      /\ Adjacent4(path[k], path[k + 1])
                      /\ StepDir(path[k], path[k + 1]) \in 0..3
                      /\ ~InList(path[k + 1], SubSeq(path, 1, k))
               /\ \A k \in 1..(Len(path) - 2) :
                      LET d1 == StepDir(path[k], path[k + 1])
                          d2 == StepDir(path[k + 1], path[k + 2])
                      IN  d2 = d1 \/ d2 = (d1 + 1) % 4
               /\ Len(path) >= 2 => StepDir(path[1], path[2]) \in {0, 1}

\* a spiral of a grid with an inner ring: the path turns more than four times
C2_Witness ==
    /\ op = <<"get_spiral_waypoints">>
    /\ num_rows >= 4
    /\ num_cols >= 3
    /\ ret # None
    /\ Len(ret[1]) = num_rows * num_cols
    /\ ret[1][1] \notin {<<0, 0>>, <<num_rows - 1, 0>>, <<0, num_cols - 1>>,
                         <<num_rows - 1, num_cols - 1>>}

\* C3: the border traversal returns 2*num_cols waypoints: for each column in
\* increasing order its row-0 node and its row-(num_rows-1) node, bottom first
\* in even columns and top first in odd columns, so the last waypoint of a
\* column and the first of the next column lie in the same row, side by side.
C3_BorderLawnmower ==
    op = <<"get_border_lawnmower_waypoints">> =>
        /\ err = "none"
        /\ ret # None
        /\ LET w == ret[1]
           IN  /\ Len(w) = 2 * num_cols
               /\ \A i \in 0..(num_cols - 1) :
                      /\ w[2 * i + 1] = IF i % 2 = 0 THEN <<0, i>> ELSE <<num_rows - 1, i>>
                      /\ w[2 * i + 2] = IF i % 2 = 0 THEN <<num_rows - 1, i>> ELSE <<0, i>>
               /\ \A i \in 0..(num_cols - 2) :
                      /\ w[2 * i + 2][1] = w[2 * i + 3][1]
                      /\ w[2 * i + 3][2] = w[2 * i + 2][2] + 1

\* a border traversal of a grid with an odd and two even columns of several rows
C3_Witness ==
    /\ op = <<"get_border_lawnmower_waypoints">>
    /\ num_rows >= 3
    /\ num_cols >= 3
    /\ ret # None
    /\ Len(ret[1]) = 2 * num_cols
    /\ ret[1][3] = <<num_rows - 1, 1>>

--------------------------------------------------------------------------
\* Properties of get_waypoints and of Mission construction (Spec).

\* the generator each traversal mode of the configuration stands for
ModeSequence(mode) ==
    IF mode = Str("full") THEN get_all_lawnmower_waypoints(num_rows, num_cols).waypoints
    ELSE IF mode = Str("borders")
    THEN get_border_lawnmower_waypoints(num_rows, num_cols).waypoints
    ELSE get_spiral_waypoints(num_rows, num_cols).waypoints

TraversalModes == {Str("full"), Str("borders"), Str("spiral")}

\* C4: get_waypoints called with 'full', 'borders' or 'spiral' returns the full
\* lawnmower, the border lawnmower or the spiral sequence; get_waypoints('borders')
\* has 2*num_cols waypoints; a Mission constructed with the default grid_mode
\* has all_waypoints and waypoints_to_visit equal to the border sequence.
C4_ModesReturnTraversal ==
    /\ (op[1] = "get_waypoints" /\ op[2] \in TraversalModes) =>
           /\ err = "none"
           /\ ret = Some(ModeSequence(op[2]))
           /\ op[2] = Str("borders") => Len(ret[1]) = 2 * num_cols
    /\ op = <<"Mission", default_grid_mode>> =>
           /\ err = "none"
           /\ all_waypoints = Some(ModeSequence(Str("borders")))
           /\ waypoints_to_visit = all_waypoints

\* C5: get_waypoints called with a mode value that names no traversal mode
\* returns the empty list, raises nothing and leaves the grid as it was.
C5_UnknownModeEmpty ==
    [][\A mode \in ModeInputs \ TraversalModes :
           get_waypoints(mode) =>
               /\ err' = "none"
               /\ ret' = Some(<<>>)
               /\ UNCHANGED grid_vars]_vars

--------------------------------------------------------------------------
\* Properties of the border analysis (SpecBorder).

\* cell p lies in the first or last row or column of the grid
OnOuterEdge(p) ==
    p[1] = 0 \/ p[1] = num_rows - 1 \/ p[2] = 0 \/ p[2] = num_cols - 1

\* the cells of the grid in the 3x3 block around p
Neighbourhood(p) ==
    {q \in AllCells : Abs(q[1] - p[1]) <= 1 /\ Abs(q[2] - p[2]) <= 1}

\* C6: after find_border_nodes a node is in border_nodes, with its border flag
\* set, exactly if it is active and lies on the outer edge of the grid or has an
\* inactive cell in its 3x3 neighbourhood.
C6_BorderIffEdgeOrInactiveNeighbour ==
    op = <<"find_border_nodes">> =>
        \A p \in AllCells :
            (InList(p, border_nodes[1]) /\ p \in border)
                <=> /\ p \in active
                    /\ \/ OnOuterEdge(p)
                       \/ \E q \in Neighbourhood(p) : q \notin active

\* C7: on a grid with every node active find_border_nodes yields
\* 2*(rows+cols)-4 border nodes when rows > 2 and cols > 2, never rows*cols
\* then, and rows*cols border nodes when rows <= 2 or cols <= 2.
C7_FullGridPerimeterCount ==
    (op = <<"find_border_nodes">> /\ active = AllCells) =>
        LET n == Len(border_nodes[1])
        IN  IF num_rows > 2 /\ num_cols > 2
            THEN n = 2 * (num_rows + num_cols) - 4 /\ n # num_rows * num_cols
            ELSE n = num_rows * num_cols

MinOf(S) == CHOOSE x \in S : \A y \in S : x <= y

\* C8: after find_border_nodes on a grid with an active node,
\* leftmost_node_pos is the active node of the least column that has one and,
\* in that column, of the least row; leftmost_node is the node at that
\* position.  With no active node both stay unset.
C8_Leftmost ==
    op = <<"find_border_nodes">> =>
        IF active = {}
        THEN leftmost_node_pos = None /\ leftmost_node = None
        ELSE LET c == MinOf({p[2] : p \in active})
                 r == MinOf({p[1] : p \in {q \in active : q[2] = c}})
             IN  /\ leftmost_node_pos = Some(<<r, c>>)
                 /\ leftmost_node = Some(<<r, c>>)

\* an analysis whose leftmost active column is an inner column with two active
\* nodes, the upper of them not within one cell of the grid's edge
C8_Witness ==
    /\ op = <<"find_border_nodes">>
    /\ leftmost_node_pos = Some(<<2, 2>>)
    /\ {<<2, 2>>, <<3, 2>>} \subseteq active
    /\ num_rows >= 5
    /\ num_cols >= 5
    /\ border_nodes # None

--------------------------------------------------------------------------
\* C9: on a freshly constructed grid (no activation, no border analysis) the
\* number of nodes of the full-mode waypoint list whose border flag is set is
\* 2*num_cols, and is not num_rows*num_cols.
C9_FreshGridBorderFlagCount ==
    (op = <<"get_all_lawnmower_waypoints">> /\ active = {} /\ border_nodes = None) =>
        /\ ret # None
        /\ LET w == ret[1]
               count == Cardinality({k \in 1..Len(w) : w[k] \in border})
           IN  /\ count = 2 * num_cols
               /\ count # num_rows * num_cols

--------------------------------------------------------------------------
\* C10: every node is inactive right after construction, and no call of
\* activate_node, activate_nodes, find_border_nodes or get_waypoints clears an
\* active flag.
C10_ActivationMonotonic ==
    /\ active = {}
    /\ [][active \subseteq active']_vars

\* nodes were activated by several calls and other calls followed
C10_Witness ==
    /\ Cardinality(active) >= 2
    /\ active # AllCells
    /\ border_nodes # None
    /\ op[1] = "get_waypoints"


--------------------------------------------------------------------------
\* The border analysis across activation calls (Spec).

ActivationOps == {"activate_node", "activate_nodes"}

\* C11 (as stated): an activate_node or activate_nodes call that activates a
\* previously inactive node invalidates the result of the earlier
\* find_border_nodes: border_nodes, leftmost_node and leftmost_node_pos are
\* no longer exposed.
C11_InvalidatedByActivation ==
    [][(/\ op'[1] \in ActivationOps
        /\ active' # active
        /\ border_nodes # None)
       => (/\ border_nodes' = None
           /\ leftmost_node' = None
           /\ leftmost_node_pos' = None)]_vars

\* C11 (amended): activation never touches the result of the border analysis:
\* every activate_node and activate_nodes call, also one that activates a
\* previously inactive node, leaves border_nodes, leftmost_node,
\* leftmost_node_pos and the border flags as the last find_border_nodes left
\* them.
C11_AnalysisKeptByActivation ==
    [][(op'[1] \in ActivationOps /\ border_nodes # None)
       => UNCHANGED <<border_nodes, leftmost_node, leftmost_node_pos, border>>]_vars

\* An activation call has changed the activation after an analysis, and the
\* list the grid exposes is not the list a new analysis would produce.
C11_Witness ==
    /\ op[1] \in ActivationOps
    /\ err = "none"
    /\ border_nodes # None
    /\ border_nodes # Some(find_border_result(active, border, num_rows,
                                              num_cols).border_list)

--------------------------------------------------------------------------
\* Grid construction (the initial states of SpecTraversal).

\* C12: with S = STEP_SIZE_METERS, num_cols = floor(X / S) + 1 and
\* num_rows = floor(Y / S) + 1 for a box of X by Y metres, so the nominal
\* local coordinate ((num_cols - 1) * S, (num_rows - 1) * S) of the
\* upper-right node never exceeds (X, Y) and falls short of it by less than
\* one step on each axis.
C12_GridSizing ==
    LET S == STEP_SIZE_METERS
        x == (num_cols - 1) * S
        y == (num_rows - 1) * S
    IN  /\ num_cols = (x_extent \div S) + 1
        /\ num_rows = (y_extent \div S) + 1
        /\ x <= x_extent /\ x_extent - x < S
        /\ y <= y_extent /\ y_extent - y < S

\* a grid of several rows and columns whose box is not a whole number of
\* steps on either axis
C12_Witness ==
    /\ op = <<"Grid">>
    /\ x_extent % STEP_SIZE_METERS # 0
    /\ y_extent % STEP_SIZE_METERS # 0
    /\ num_rows > 1
    /\ num_cols > 1

\* C13: a Grid is not constructed from a box of zero extent on an axis:
\* construction fails and no grid with nodes exists.
C13_DegenerateBoxRejected ==
    (x_extent = 0 \/ y_extent = 0)
        => ~(err = "none" /\ DOMAIN nodes # {})

\* C14: every cell holds a node; the node of cell (row, col) has latitude
\* lat_min + row * lat_step and longitude long_min + col * long_step (here
\* <<row, col>> in steps from the origin), in even and odd columns alike, so
\* latitude increases strictly with the row and longitude with the column.
C14_NodeCoordinates ==
    /\ DOMAIN nodes = Cells(num_rows, num_cols)
    /\ \A p \in DOMAIN nodes : nodes[p] = Some(<<p[1], p[2]>>)
    /\ \A p \in DOMAIN nodes : \A q \in DOMAIN nodes :
           /\ nodes[p] # None /\ nodes[q] # None
           /\ p[1] < q[1] => nodes[p][1][1] < nodes[q][1][1]
           /\ p[2] < q[2] => nodes[p][1][2] < nodes[q][1][2]

\* a grid with an odd column of several rows
C14_Witness ==
    /\ op = <<"Grid">>
    /\ num_rows >= 3
    /\ num_cols >= 2
    /\ nodes[<<num_rows - 1, 1>>] # None

--------------------------------------------------------------------------
\* The phases of a mission (SpecMission, SpecLawnMover).

\* the phase changes of the mission state machine
PhaseChanges ==
    {<<"SETUP", "TRAVERSE">>, <<"TRAVERSE", "AVOID_OBSTACLE">>,
     <<"TRAVERSE", "RETURN">>, <<"AVOID_OBSTACLE", "DOCKING">>,
     <<"RETURN", "DOCKING">>, <<"DOCKING", "COMPLETE">>}
        \cup {<<Phase[n], "FAULT">> : n \in {1, 2, 3, 4, 5}}

\* execute_mission is running, or the handler it dispatches in TRAVERSE is
\* running in that phase
InMission ==
    \/ mpc \in {"while", "body"}
    \/ stack # <<>> /\ Head(stack) = "execute_traversal" /\ phase = "TRAVERSE"

C16_MissionProgress ==
    /\ (mpc = "while" /\ phase = "SETUP") ~> (phase = "TRAVERSE")
    /\ (mpc = "while" /\ phase = "SETUP") ~> (phase = "COMPLETE" /\ mpc = "returned")

\* C17: FAULT is terminal: with the robot in FAULT execute_mission stops
\* dispatching and terminates, the phase still FAULT.
C17_FaultTerminates ==
    (mpc \in {"while", "body"} /\ phase = "FAULT")
        ~> (mpc = "returned" /\ phase = "FAULT")

--------------------------------------------------------------------------
\* Waypoint consumption by lawn_mover (SpecLawnMover).

\* C19: lawn_mover removes a waypoint only when the robot is within
\* allowed_dist_error of it: a step that changes the queue removes its head,
\* and the distance from the robot's position to that head is at most the
\* tolerance; while the distance exceeds the tolerance the head stays.
C19_RemovedOnlyWithinTolerance ==
    [][(stack # <<>> /\ waypoints_to_visit' # waypoints_to_visit)
       => LET wp == get_coords(Head(waypoints_to_visit[1]))
          IN  /\ waypoints_to_visit' = Some(Tail(waypoints_to_visit[1]))
              /\ Dist2(state, wp) <= allowed_dist_error * allowed_dist_error
              /\ state' = state]_vars

\* a waypoint has just been removed with the robot one metre from it, the
\* tolerance being one metre
C19_Witness ==
    /\ lpc = "while"
    /\ reached >= 1
    /\ allowed_dist_error = MM
    /\ Dist2(state, get_coords(op[2][reached])) = MM * MM

\* C20: consumption is first-in first-out: after N waypoints have been
\* reached the queue is the queue passed in without its first N elements, in
\* the same order.
C20_FirstInFirstOut ==
    op[1] \in {"lawn_mover", "execute_traversal"}
        => /\ reached <= Len(op[2])
           /\ waypoints_to_visit = Some(SubSeq(op[2], reached + 1, Len(op[2])))

\* two waypoints have been reached and others are left
C20_Witness ==
    /\ stack # <<>>
    /\ reached >= 2
    /\ Len(waypoints_to_visit[1]) >= 2

--------------------------------------------------------------------------
\* Properties of the waypoint lists during a traversal (SpecLawnMover).

\* list w is list v without its first k elements, for some k
IsSuffix(w, v) == \E k \in 0..Len(v) : w = SubSeq(v, k + 1, Len(v))

\* C29: at every moment of a traversal waypoints_to_visit is a suffix of
\* all_waypoints (the waypoints not yet reached, in their original order),
\* and no step of the traversal modifies all_waypoints.
C29_QueueIsSuffix ==
    /\ [](/\ all_waypoints # None
          /\ waypoints_to_visit # None
          /\ IsSuffix(waypoints_to_visit[1], all_waypoints[1]))
    /\ [][all_waypoints' = all_waypoints]_vars

\* lawn_mover has reached two waypoints and others are left
C29_Witness ==
    /\ stack # <<>>
    /\ reached = 2
    /\ waypoints_to_visit[1] # <<>>
    /\ Len(waypoints_to_visit[1]) + 2 = Len(all_waypoints[1])

--------------------------------------------------------------------------
\* Properties of lawn_mover and of the movement methods (SpecSim,
\* SpecLawnMoverFair, SpecNoisy).

\* C21: lawn_mover sets the phase to COMPLETE only in a state where the
\* waypoint queue is empty, and does so when it finds the queue empty; the
\* phase is left as it is (TRAVERSE in a mission) while any waypoint remains;
\* the call itself moves nothing, and a call with an already empty queue sets
\* COMPLETE and returns with state and truthpose unchanged.
C21_CompleteExactlyWhenExhausted ==
    [][/\ (stack = <<>> /\ stack' # <<>>) =>
              UNCHANGED <<phase, state, truthpose>>
       /\ stack # <<>> =>
           /\ phase' # phase =>
                  /\ phase' = "COMPLETE"
                  /\ waypoints_to_visit[1] = <<>>
                  /\ UNCHANGED <<waypoints_to_visit, state, truthpose>>
           /\ waypoints_to_visit[1] # <<>> => phase' = phase
           /\ (lpc = "while" /\ waypoints_to_visit[1] = <<>>) =>
                  phase' = "COMPLETE" /\ stack' = <<>>
           /\ op[2] = <<>> =>
                  /\ phase' = "COMPLETE"
                  /\ stack' = <<>>
                  /\ UNCHANGED <<state, truthpose>>]_vars

\* a simulated robot was moved off the waypoint, lawn_mover drove it back,
\* removed the waypoint and set COMPLETE
C21_Witness ==
    /\ phase = "COMPLETE"
    /\ stack = <<>>
    /\ op[1] = "lawn_mover"
    /\ op[2] # <<>>
    /\ waypoints_to_visit[1] = <<>>
    /\ reached = 1
    /\ is_sim
    /\ Len(truthpose) = MaxLog

\* C22: lawn_mover returns after finitely many steps for every finite queue:
\* a waypoint whose distance does not improve is given up after a bounded
\* number of control steps.
C22_LawnMoverReturns == (stack # <<>>) ~> (stack = <<>>)

\* list v begins with list w
IsPrefix(w, v) == Len(w) <= Len(v) /\ w = SubSeq(v, 1, Len(w))

\* a step of travel, move_forward or turn: a direct call, or the call of
\* travel in the control loop of lawn_mover
MovementCall ==
    \/ RobotIdle /\ op'[1] \in {"travel", "move_forward", "turn"}
    \/ lpc = "control" /\ lpc' = "inner"

\* C24: with is_sim true each call of travel, move_forward or turn appends
\* to truthpose exactly one entry, the state after the call, and no step
\* changes or removes an earlier entry; with is_sim false no step changes
\* truthpose.
C24_TruthposeAppendOnly ==
    [][/\ (is_sim /\ MovementCall) => truthpose' = Append(truthpose, state')
       /\ is_sim => IsPrefix(truthpose, truthpose')
       /\ ~is_sim => truthpose' = truthpose
       /\ is_sim' = is_sim]_vars

\* a simulated robot has filled truthpose, the last call was turn
C24_Witness ==
    /\ is_sim
    /\ Len(truthpose) = MaxLog
    /\ op[1] = "turn"
    /\ truthpose[MaxLog] = state
    /\ truthpose[MaxLog - 1] # state

\* C26: the localization noise never changes the true state: in a traversal
\* the state changes only in the call of travel.
C26_NoiseLeavesTrueState ==
    [][(stack # <<>> /\ state' # state) => (lpc = "control" /\ lpc' = "inner")]_vars

--------------------------------------------------------------------------
\* Properties of roomba_mover (SpecRoomba).

\* C23: for every time_limit >= 0 the loop of roomba_mover ends and the phase
\* becomes COMPLETE.
C23_RoombaTerminates ==
    (rb.pc = "while" /\ rb.time_limit >= 0) ~>
        (rb.pc = "idle" /\ phase = "COMPLETE")

\* C25: a pass of roomba_mover with the robot inside the extent of the grid
\* in metres advances the position by move_dist along the heading and keeps
\* the heading; a pass with the robot outside moves it back by move_dist
\* along the heading and then adds turn_dist to the heading.
C25_RoombaIteration ==
    [][rb.pc = "while" =>
          LET x == state[1]
              y == state[2]
              h == state[3]
              inside == /\ 0 <= x /\ x <= x_extent * MM
                        /\ 0 <= y /\ y <= y_extent * MM
          IN  IF inside
              THEN state' = <<x + move_dist * cos_mm(h),
                              y + move_dist * sin_mm(h), h>>
              ELSE state' = <<x - move_dist * cos_mm(h),
                              y - move_dist * sin_mm(h),
                              (h + turn_dist) % TurnsPerCircle>>]_vars

--------------------------------------------------------------------------
\* Range activation and the border flags (Spec).

\* the nodes of the grid with row <= r < row_limit and col <= c < col_limit
RangeCells(row, col, row_limit, col_limit) ==
    {p \in AllCells : /\ row <= p[1] /\ p[1] < row_limit
                      /\ col <= p[2] /\ p[2] < col_limit}

\* the arguments activate_nodes is called with
ActivateNodesInputs ==
    ((-1)..num_rows) \X ((-1)..num_cols) \X (0..(num_rows + 1)) \X (0..(num_cols + 1))

\* C27 (as stated): activate_nodes(row, col, row_limit, col_limit) leaves
\* active exactly the nodes with row <= r < row_limit and col <= c < col_limit
\* and the nodes active before, whatever the arguments.
C27_ActivatesExactlyRange ==
    \A a \in ActivateNodesInputs :
        activate_nodes_result(active, a[1], a[2], a[3], a[4], num_rows, num_cols).active
            = active \cup RangeCells(a[1], a[2], a[3], a[4])

\* C27 (amended): for a range inside the grid (0 <= row, 0 <= col,
\* row_limit <= num_rows, col_limit <= num_cols) activate_nodes returns with
\* exactly the nodes of the range and the nodes active before active, the
\* nodes at r = row_limit and c = col_limit not among the new ones; and no
\* call of activate_nodes changes a border flag or a node's coordinates.
C27_ActivatesRangeInsideGrid ==
    /\ [](\A a \in ActivateNodesInputs :
            (0 <= a[1] /\ 0 <= a[2] /\ a[3] <= num_rows /\ a[4] <= num_cols)
                => LET r == activate_nodes_result(active, a[1], a[2], a[3], a[4],
                                                  num_rows, num_cols)
                   IN  /\ r.err = "none"
                       /\ r.active = active \cup RangeCells(a[1], a[2], a[3], a[4]))
    /\ [][op'[1] = "activate_nodes" => UNCHANGED <<border, nodes>>]_vars

\* a call has returned that activated some nodes and left others inactive
C27_Witness ==
    /\ op[1] = "activate_nodes"
    /\ err = "none"
    /\ active # {}
    /\ active # AllCells
    /\ \E a \in ActivateNodesInputs :
           /\ 0 <= a[1] /\ 0 <= a[2] /\ a[3] < num_rows /\ a[4] <= num_cols
           /\ RangeCells(a[1], a[2], a[3], a[4]) = active

--------------------------------------------------------------------------
\* The adjustable lawnmower generator (SpecAdjustable).

\* C30: started from the leftmost active node after border analysis, the
\* generator terminates: its phase eventually becomes TERMINATE; and until
\* then every pass of the loop either appends an active neighbour to the path
\* or changes phase among UP, DOWN, UP_RIGHT and DOWN_RIGHT.
C30_AdjustableTerminates ==
    /\ (adj.pc = "while" /\ leftmost_node_pos # None) ~> (adj.phase = "TERMINATE")
    /\ [][adj.pc = "body"
           => \/ /\ adj'.pc = "while"
                 /\ Len(adj'.waypoints) = Len(adj.waypoints) + 1
                 /\ adj'.waypoints[Len(adj'.waypoints)] \in active
              \/ /\ adj'.pc = "while"
                 /\ adj'.phase # adj.phase
                 /\ adj'.phase \in {"UP", "DOWN", "UP_RIGHT", "DOWN_RIGHT"}]_vars
====
